---- MODULE Spec2Model ----
(***************************************************************************)
(* A model of src/parser.py: the RIS tag-line parser (Parser / RisParser). *)
(*                                                                         *)
(* A line is a sequence of characters; a character is a one-character      *)
(* string, except for two code points that have no printable form and are  *)
(* written as the tokens BOM (U+FEFF) and EFEF (U+EFEF).  Regular          *)
(* expression matching, stripping and slicing are computed on these        *)
(* sequences the way the Python code computes them on str.                 *)
(***************************************************************************)
EXTENDS Integers, Sequences, FiniteSets, TLC

VARIABLES
  cfg,       \* the parser instance's configuration, set by __init__
  lines,     \* the argument of parselines
  i,         \* the loop index of enumerate(lines): the next line to process
  content,   \* parselines' local output list
  data,      \* parselines' local working record (a dict)
  inref,     \* self.inref
  pc,        \* "running", "returned", or the name of the exception raised
  errIndex,  \* the index carried by ParserError's message, -1 if none
  result,    \* the list parselines returned (<<>> unless pc = "returned")
  closedAt,  \* history: for each record of content, the index of the line
             \* whose processing appended it
  aliases,   \* the positions of content that hold the very dict object that
             \* data names (content.append(data) appends a reference)
  prev,      \* history: how each earlier parselines call on this instance
             \* ended, oldest first (<<>> during the first call)
  citeContent,  \* the content argument of cite
  citeNewline,  \* the newline argument of cite
  citeK,        \* the number of records cite's loop has formatted
  output,       \* cite's local list of formatted lines
  citeResult,   \* the str cite returned (<<>> unless citePc = "returned")
  citePc        \* "idle", "running", "returned", or the exception raised

parserVars ==
  <<cfg, lines, i, content, data, inref, pc, errIndex, result, closedAt, aliases,
    prev>>

citeVars == <<citeContent, citeNewline, citeK, output, citeResult, citePc>>

vars == <<parserVars, citeVars>>

-----------------------------------------------------------------------------
(* Bounds of the model.                                                    *)

MaxLen == 4

MaxLenCfg == 3

-----------------------------------------------------------------------------
(* Characters and str operations.                                          *)

BOM == "BOM"

EFEF == "EFEF"

Upper == {"A","B","C","D","E","F","G","H","I","J","K","L","M",
          "N","O","P","Q","R","S","T","U","V","W","X","Y","Z"}

Digit == {"0","1","2","3","4","5","6","7","8","9"}

\* str.isspace() characters that can occur here; U+FEFF is not among them.
Whitespace == {" ", "\t", "\n", "\r"}

RECURSIVE lstrip(_, _)
\* str.lstrip(chars): drop every leading character that is in chars.
lstrip(s, chars) ==
  IF s # <<>> /\ Head(s) \in chars THEN lstrip(Tail(s), chars) ELSE s

RECURSIVE rstrip(_, _)
rstrip(s, chars) ==
  IF s # <<>> /\ s[Len(s)] \in chars
  THEN rstrip(SubSeq(s, 1, Len(s) - 1), chars) ELSE s

\* str.strip(): drop leading and trailing whitespace.
strip(s) == rstrip(lstrip(s, Whitespace), Whitespace)

\* The characters of the string literal on line 35: a backslash-u escape takes
\* four hex digits, so the literal is U+EFEF followed by the letter f.
StripChars == {EFEF, "f"}

FirstLineStrip_every_line(index, line) == lstrip(line, StripChars)

\* line 35: if i == 0: line = line.lstrip(<U+EFEF, f>)
FirstLineStrip(index, line) ==
  IF index = 0 THEN lstrip(line, StripChars) ELSE line

\* RisParser.PATTERN = r"^[A-Z][A-Z0-9]  - |^ER  -\s*$", used with
\* pattern.match: anchored at the start of the line.
PatternMatch(line) ==
  \/ /\ Len(line) >= 6
     /\ line[1] \in Upper
     /\ line[2] \in Upper \cup Digit
     /\ SubSeq(line, 3, 6) = <<" ", " ", "-", " ">>
  \/ /\ Len(line) >= 5
     /\ SubSeq(line, 1, 5) = <<"E", "R", " ", " ", "-">>
     /\ \A k \in 6..Len(line) : line[k] \in Whitespace

\* RisParser.content: line[6:].strip()
Content(line) == strip(SubSeq(line, 7, Len(line)))

\* line[0:2]
TagOf(line) == SubSeq(line, 1, 2)

START_TAG == <<"T", "Y">>

END_TAG == <<"E", "R">>

-----------------------------------------------------------------------------
(* dict and value operations.  A dict is a function on its set of keys; a  *)
(* field value is a str ([t |-> "str"]) or a list of str ([t |-> "list"]). *)

EmptyDict == [n \in {} |-> 0]

None == [t |-> "None"]

Str(s) == [t |-> "str", v |-> s]

List(ss) == [t |-> "list", v |-> ss]

DictSet(d, k, v) == [n \in DOMAIN d \cup {k} |-> IF n = k THEN v ELSE d[n]]

\* dict.get(k): None when the key is absent
DictGet(d, k) == IF k \in DOMAIN d THEN d[k] ELSE None

\* dict.setdefault(k, v)
SetDefault(d, k, v) == IF k \in DOMAIN d THEN d ELSE DictSet(d, k, v)

\* Python truthiness of a field value / of a dict
Truthy(v) == v.t # "None" /\ v.v # <<>>

DictTruthy_always(d) == TRUE

DictTruthy(d) == DOMAIN d # {}

\* The outcome of a helper: the dict after the call and the exception it
\* raised ("none" when it returned).
Ok(d) == [data |-> d, raised |-> "none"]

Raise(d, e) == [data |-> d, raised |-> e]

-----------------------------------------------------------------------------
(* The Parser methods.                                                     *)

_add_single_tag_overwrite(c, name, value, d) ==
  IF c.enforce_list_tags THEN Ok(SetDefault(d, name, Str(value)))
  ELSE Ok(DictSet(d, name, Str(value)))

\* lines 58-60
_add_single_tag(c, name, value, d) ==
  IF c.enforce_list_tags \/ name \notin DOMAIN d
  THEN Ok(SetDefault(d, name, Str(value)))
  ELSE Ok(d)

\* lines 62-65: value is a str (RisParser.content), so it is wrapped in a
\* list; extending a str value raises AttributeError.
_add_list_tag(c, name, value, d) ==
  IF ~Truthy(DictGet(d, name))
  THEN Ok(DictSet(d, name, List(<<value>>)))
  ELSE IF d[name].t = "list"
       THEN Ok(DictSet(d, name, List(Append(d[name].v, value))))
       ELSE Raise(d, "AttributeError")

_add_tag_no_delimiter(c, tag, line, d) ==
  IF tag \notin DOMAIN c.mapping THEN Raise(d, "KeyError")
  ELSE IF tag \in c.list_tags
       THEN _add_list_tag(c, c.mapping[tag], Content(line), d)
       ELSE _add_single_tag(c, c.mapping[tag], Content(line), d)

\* lines 52-56: self.mapping[tag] raises KeyError for an unmapped tag; a
\* non-None delimiter entry raises Exception.
_add_tag(c, tag, line, d) ==
  IF tag \notin DOMAIN c.mapping THEN Raise(d, "KeyError")
  ELSE IF DictGet(c.delimiter, tag) # None THEN Raise(d, "Exception")
  ELSE IF tag \in c.list_tags
       THEN _add_list_tag(c, c.mapping[tag], Content(line), d)
       ELSE _add_single_tag(c, c.mapping[tag], Content(line), d)

\* The outcome of _parse_tag: whether its return value is truthy, the dict,
\* self.inref, and the exception raised with the index in its message.
ParseTagResult(truthy, d, inr, raised, idx) ==
  [truthy |-> truthy, data |-> d, inref |-> inr, raised |-> raised, index |-> idx]

_parse_tag_no_guard(c, index, line, d, inr) ==
  LET tag == TagOf(line) IN
  IF tag = START_TAG
  THEN LET r == _add_tag(c, tag, line, d) IN
       ParseTagResult(FALSE, r.data, IF r.raised = "none" THEN TRUE ELSE inr,
                      r.raised, -1)
  ELSE IF tag = END_TAG
  THEN ParseTagResult(DictTruthy(d), d, inr, "none", -1)
  ELSE IF tag \in DOMAIN c.mapping
       THEN LET r == _add_tag(c, tag, line, d) IN
            ParseTagResult(FALSE, r.data, inr, r.raised, -1)
       ELSE ParseTagResult(FALSE, d, inr, "none", -1)

_parse_tag_no_mapping_test(c, index, line, d, inr) ==
  LET tag == TagOf(line) IN
  IF tag = START_TAG
  THEN IF inr
       THEN ParseTagResult(FALSE, d, inr, "ParserError", index)
       ELSE LET r == _add_tag(c, tag, line, d) IN
            ParseTagResult(FALSE, r.data, IF r.raised = "none" THEN TRUE ELSE inr,
                           r.raised, -1)
  ELSE IF tag = END_TAG
  THEN ParseTagResult(DictTruthy(d), d, inr, "none", -1)
  ELSE LET r == _add_tag(c, tag, line, d) IN
       ParseTagResult(FALSE, r.data, inr, r.raised, -1)

\* lines 43-50
_parse_tag(c, index, line, d, inr) ==
  LET tag == TagOf(line) IN
  IF tag = START_TAG
  THEN IF inr
       THEN ParseTagResult(FALSE, d, inr, "ParserError", index)
       ELSE LET r == _add_tag(c, tag, line, d) IN
            ParseTagResult(FALSE, r.data, IF r.raised = "none" THEN TRUE ELSE inr,
                           r.raised, -1)
  ELSE IF tag = END_TAG
  THEN ParseTagResult(DictTruthy(d), d, inr, "none", -1)
  ELSE IF tag \in DOMAIN c.mapping
       THEN LET r == _add_tag(c, tag, line, d) IN
            ParseTagResult(FALSE, r.data, inr, r.raised, -1)
       ELSE ParseTagResult(FALSE, d, inr, "none", -1)

\* The state of one parselines call.
LoopState(cont, d, inr, p, idx, closed, al) ==
  [content |-> cont, data |-> d, inref |-> inr, pc |-> p, errIndex |-> idx,
   closedAt |-> closed, aliases |-> al]

\* line 33
InitialLoopState == LoopState(<<>>, EmptyDict, FALSE, "running", -1, <<>>, {})

EntryState_keeps_inref(inr) == [InitialLoopState EXCEPT !.inref = inr]

\* line 33 on an instance whose self.inref is inr, left by an earlier call:
\* the assignment overwrites it.
EntryState(inr) == InitialLoopState

\* The list content once the dict object that data names holds d: _add_tag
\* changes that object in place (lines 60, 64, 65), and every element of
\* content that is the same object shows the change.
ContentAfter(cont, al, d) == [k \in 1..Len(cont) |-> IF k \in al THEN d ELSE cont[k]]

Finalize_keeps_inref(st, index, d) ==
  LoopState(Append(st.content, d), EmptyDict, TRUE, "running", -1,
            Append(st.closedAt, index), {})

Finalize_no_rebind(st, index, d) ==
  LoopState(Append(st.content, d), d, FALSE, "running", -1,
            Append(st.closedAt, index), st.aliases \cup {Len(st.content) + 1})

\* lines 39-40: content.append(data); data, self.inref = {}, False.  The
\* appended element is the object data names; data is then bound to a new
\* dict, so no element of content is that object any longer.
Finalize(st, index, d) ==
  LoopState(Append(st.content, d), EmptyDict, FALSE, "running", -1,
            Append(st.closedAt, index), {})

\* lines 35-40: the body of the loop for line number index.
LoopBody(c, st, index, rawline) ==
  LET line == FirstLineStrip(index, rawline) IN
  IF strip(line) = <<>> THEN st
  ELSE IF ~PatternMatch(line) THEN st
  ELSE LET r == _parse_tag(c, index, line, st.data, st.inref)
           cont == ContentAfter(st.content, st.aliases, r.data)
       IN
       IF r.raised # "none"
       THEN LoopState(cont, r.data, r.inref, r.raised, r.index, st.closedAt,
                      st.aliases)
       ELSE IF r.truthy
            THEN Finalize([st EXCEPT !.content = cont], index, r.data)
            ELSE LoopState(cont, r.data, r.inref, "running", -1, st.closedAt,
                           st.aliases)

ReturnValue_flush(cont, d, inr) == IF inr THEN Append(cont, d) ELSE cont

\* line 41: return content
ReturnValue(cont, d, inr) == cont

RECURSIVE RunFrom(_, _, _, _)
\* lines 34-41 from line number index on, as a function of the input.
RunFrom(c, st, index, ls) ==
  IF st.pc # "running"
  THEN [pc |-> st.pc, result |-> <<>>, errIndex |-> st.errIndex, consumed |-> index]
  ELSE IF index >= Len(ls)
       THEN [pc |-> "returned",
             result |-> ReturnValue(st.content, st.data, st.inref),
             errIndex |-> -1, consumed |-> index]
       ELSE RunFrom(c, LoopBody(c, st, index, ls[index + 1]), index + 1, ls)

\* lines 32-41: parselines as a function of the configuration and the input.
parselines(c, ls) == RunFrom(c, InitialLoopState, 0, ls)

-----------------------------------------------------------------------------
(* Inputs and configurations.                                              *)

L_TY == <<"T","Y"," "," ","-"," ","J">>

L_ER == <<"E","R"," "," ","-">>

L_AU_X == <<"A","U"," "," ","-"," ","X","\n">>

L_AU_Y == <<"A","U"," "," ","-"," ","Y">>

L_PY_A == <<"P","Y"," "," ","-"," ","A">>

L_PY_B == <<"P","Y"," "," ","-"," "," ","B"," ">>

L_ZZ == <<"Z","Z"," "," ","-"," ","Q">>

L_BLANK == <<" ","\n">>

L_F_TY == <<"f","T","Y"," "," ","-"," ","J">>

L_BOM_TY == <<BOM,"T","Y"," "," ","-"," ","J">>

LinePool == {L_TY, L_ER, L_AU_X, L_AU_Y, L_PY_A, L_PY_B, L_BLANK, L_F_TY, L_BOM_TY}

CfgLinePool == {L_TY, L_ER, L_AU_X, L_PY_A, L_PY_B, L_ZZ}

Inputs(pool, n) == UNION {[1..k -> pool] : k \in 0..n}

AU == <<"A","U">>

PY == <<"P","Y">>

ZZ == <<"Z","Z">>

Config(m, lt, dl, e) ==
  [mapping |-> m, list_tags |-> lt, delimiter |-> dl, enforce_list_tags |-> e]

\* Caller-supplied mappings (the mapping argument of __init__): TY and PY
\* scalar and AU a list tag; one without START_TAG; one that gives the list
\* tag AU and the scalar tag PY the same field name.
BaseMapping == (START_TAG :> "type") @@ (AU :> "authors") @@ (PY :> "year")

NoStartMapping == (AU :> "authors") @@ (PY :> "year")

SharedNameMapping == (START_TAG :> "type") @@ (AU :> "n") @@ (PY :> "n")

BaseConfig == Config(BaseMapping, {AU}, EmptyDict, TRUE)

Delimiters ==
  { (START_TAG :> Str(<<",">>)), (END_TAG :> Str(<<",">>)),
    (AU :> Str(<<",">>)), (ZZ :> Str(<<",">>)), (PY :> None),
    (END_TAG :> Str(<<";">>)) @@ (AU :> Str(<<",">>)) }

Configs ==
  { Config(m, {AU}, EmptyDict, e) :
      m \in {BaseMapping, NoStartMapping, SharedNameMapping}, e \in BOOLEAN }
  \cup { Config(BaseMapping, {AU}, dl, e) : dl \in Delimiters, e \in BOOLEAN }
  \cup { Config(NoStartMapping, {AU}, (START_TAG :> Str(<<",">>)), TRUE),
         Config(BaseMapping, {AU, ZZ}, (ZZ :> Str(<<",">>)), TRUE) }

-----------------------------------------------------------------------------
(* The state machine: one parselines call on a constructed parser.         *)

\* cite is not running.
CiteIdle ==
  /\ citeContent = <<>>
  /\ citeNewline = TRUE
  /\ citeK = 0
  /\ output = <<>>
  /\ citeResult = <<>>
  /\ citePc = "idle"

InitWith(cs, ins) ==
  /\ cfg \in cs
  /\ lines \in ins
  /\ i = 0
  /\ content = <<>>
  /\ data = EmptyDict
  /\ inref = FALSE
  /\ pc = "running"
  /\ errIndex = -1
  /\ result = <<>>
  /\ closedAt = <<>>
  /\ aliases = {}
  /\ prev = <<>>
  /\ CiteIdle

\* The default configuration, every input over LinePool.
Init == InitWith({BaseConfig}, Inputs(LinePool, MaxLen))

\* Caller-supplied configurations, every input over CfgLinePool.
InitCfg == InitWith(Configs, Inputs(CfgLinePool, MaxLenCfg))

ProcessLine_no_advance ==
  /\ pc = "running"
  /\ i < Len(lines)
  /\ LET st == LoopBody(cfg, LoopState(content, data, inref, pc, errIndex, closedAt,
                                        aliases),
                        i, lines[i + 1])
     IN /\ content' = st.content
        /\ data' = st.data
        /\ inref' = st.inref
        /\ pc' = st.pc
        /\ errIndex' = st.errIndex
        /\ closedAt' = st.closedAt
        /\ aliases' = st.aliases
  /\ i' = i
  /\ UNCHANGED <<cfg, lines, result, prev, citeVars>>

\* One iteration of the loop of parselines (lines 34-40).
ProcessLine ==
  /\ pc = "running"
  /\ i < Len(lines)
  /\ LET st == LoopBody(cfg, LoopState(content, data, inref, pc, errIndex, closedAt,
                                        aliases),
                        i, lines[i + 1])
     IN /\ content' = st.content
        /\ data' = st.data
        /\ inref' = st.inref
        /\ pc' = st.pc
        /\ errIndex' = st.errIndex
        /\ closedAt' = st.closedAt
        /\ aliases' = st.aliases
  /\ i' = i + 1
  /\ UNCHANGED <<cfg, lines, result, prev, citeVars>>

\* The loop is exhausted (line 41).
Return ==
  /\ pc = "running"
  /\ i = Len(lines)
  /\ pc' = "returned"
  /\ result' = ReturnValue(content, data, inref)
  /\ UNCHANGED <<cfg, lines, i, content, data, inref, errIndex, closedAt, aliases,
                 prev, citeVars>>

Next == ProcessLine \/ Return

Spec == Init /\ [][Next]_vars

SpecCfg == InitCfg /\ [][Next]_vars

-----------------------------------------------------------------------------
(* The vocabulary of the claims, computed from the input alone.            *)

\* The k-th line (1-based) as the parser classifies it.
Eff(ls, k) == FirstLineStrip(k - 1, ls[k])

IsBlank(line) == strip(line) = <<>>

TagBearing(ls, k) == ~IsBlank(Eff(ls, k)) /\ PatternMatch(Eff(ls, k))

IsStartLine(ls, k) == TagBearing(ls, k) /\ TagOf(Eff(ls, k)) = START_TAG

IsEndLine(ls, k) == TagBearing(ls, k) /\ TagOf(Eff(ls, k)) = END_TAG

\* A record is open just before line k: a START_TAG line was seen and no
\* END_TAG line since.
OpenBefore(ls, k) ==
  \E j \in 1..(k - 1) :
    /\ IsStartLine(ls, j)
    /\ \A m \in (j + 1)..(k - 1) : ~IsEndLine(ls, m)

\* Line k is a START_TAG line arriving while a record is open.
DoubleOpenAt(ls, k) == k \in 1..Len(ls) /\ IsStartLine(ls, k) /\ OpenBefore(ls, k)

\* The START_TAG and END_TAG lines form well-formed pairs without nesting.
WellFormedPairs(ls) ==
  /\ \A k \in 1..Len(ls) : IsStartLine(ls, k) => ~OpenBefore(ls, k)
  /\ \A k \in 1..Len(ls) : IsEndLine(ls, k) => OpenBefore(ls, k)
  /\ ~OpenBefore(ls, Len(ls) + 1)

RECURSIVE EndIndices(_, _)
\* The 0-based indices of the END_TAG lines among the first k lines, in order.
EndIndices(ls, k) ==
  IF k = 0 THEN <<>>
  ELSE IF IsEndLine(ls, k) THEN Append(EndIndices(ls, k - 1), k - 1)
       ELSE EndIndices(ls, k - 1)

\* The 1-based position of the last START_TAG line (0 if there is none).
LastStart(ls) ==
  IF \E k \in 1..Len(ls) : IsStartLine(ls, k)
  THEN CHOOSE k \in 1..Len(ls) :
         IsStartLine(ls, k) /\ \A m \in (k + 1)..Len(ls) : ~IsStartLine(ls, m)
  ELSE 0

-----------------------------------------------------------------------------
(* C1: an input whose START_TAG and END_TAG lines form N well-formed,      *)
(* non-nested pairs makes parselines return exactly N records, the i-th    *)
(* one appended by the i-th END_TAG line.                                  *)
C1_PairsGiveRecords ==
  (pc # "running" /\ WellFormedPairs(lines)) =>
    /\ pc = "returned"
    /\ Len(result) = Len(EndIndices(lines, Len(lines)))
    /\ closedAt = EndIndices(lines, Len(lines))

C1_Witness ==
  pc = "returned" /\ WellFormedPairs(lines) /\ Len(result) = 2

(* C2: a START_TAG line processed while a record is open ends the parse    *)
(* with ParserError carrying that line's 0-based position in the input     *)
(* (blank and non-tag lines counted); nothing is returned, and no line at  *)
(* or after such a line is passed over.                                    *)
C2_DoubleOpenRaises ==
  /\ pc = "running" => \A k \in 1..i : ~DoubleOpenAt(lines, k)
  /\ pc = "returned" => \A k \in 1..Len(lines) : ~DoubleOpenAt(lines, k)
  /\ pc = "ParserError" =>
       /\ DoubleOpenAt(lines, errIndex + 1)
       /\ i = errIndex + 1
       /\ result = <<>>

C2_Witness ==
  /\ pc = "ParserError"
  /\ errIndex >= 2
  /\ \E k \in 1..errIndex : IsBlank(lines[k])
  /\ \E k \in 1..errIndex : ~IsBlank(lines[k]) /\ ~PatternMatch(lines[k])

(* C4: when the input ends with a record open, parselines returns, and     *)
(* what it returns is what it returns for the input cut before the         *)
(* unterminated record's START_TAG line: the records finalized earlier     *)
(* and nothing of the unterminated one.                                    *)
C4_OpenAtEndDropped ==
  (pc # "running" /\ OpenBefore(lines, Len(lines) + 1)
     /\ \A k \in 1..Len(lines) : ~DoubleOpenAt(lines, k)) =>
    /\ pc = "returned"
    /\ result = parselines(cfg, SubSeq(lines, 1, LastStart(lines) - 1)).result

C4_Witness ==
  /\ pc = "returned"
  /\ OpenBefore(lines, Len(lines) + 1)
  /\ Len(result) = 1
  /\ LastStart(lines) < Len(lines)
  /\ TagBearing(lines, Len(lines))

(* C3 (as claimed): an END_TAG line processed while no record is open     *)
(* does not raise and leaves the output unchanged, whatever tag-bearing    *)
(* lines were processed since the previous END_TAG line.                   *)
C3_EndWhileClosedIsNoop ==
  [][(pc = "running" /\ i < Len(lines) /\ IsEndLine(lines, i + 1)
        /\ ~OpenBefore(lines, i + 1))
       => (pc' = "running" /\ content' = content)]_vars

\* The START_TAG line of the record that the END_TAG line e closes (0 when
\* no START_TAG line precedes e since the previous END_TAG line).
RecordStart(ls, e) ==
  IF \E s \in 1..(e - 1) :
       IsStartLine(ls, s) /\ \A m \in (s + 1)..(e - 1) : ~IsEndLine(ls, m)
  THEN CHOOSE s \in 1..(e - 1) :
         /\ IsStartLine(ls, s)
         /\ \A m \in (s + 1)..(e - 1) : ~IsEndLine(ls, m) /\ ~IsStartLine(ls, m)
  ELSE 0

RECURSIVE TagContents(_, _, _, _)
\* The contents of the lines s..e that carry tag t, in line order.
TagContents(ls, t, s, e) ==
  IF e < s THEN <<>>
  ELSE LET rest == TagContents(ls, t, s, e - 1) IN
       IF TagBearing(ls, e) /\ TagOf(Eff(ls, e)) = t
       THEN Append(rest, Content(Eff(ls, e)))
       ELSE rest

(* C5 (as claimed): in every returned record, the field of a mapped        *)
(* non-list tag equals the content of the first line carrying that tag     *)
(* between the record's START_TAG line and its END_TAG line.               *)
C5_ScalarFirstWins ==
  pc = "returned" =>
    \A k \in 1..Len(result) :
      LET e == closedAt[k] + 1
          s == RecordStart(lines, e)
      IN s > 0 =>
           \A t \in DOMAIN cfg.mapping \ (cfg.list_tags \cup {END_TAG}) :
             LET cs == TagContents(lines, t, s, e) IN
             cs # <<>> =>
               /\ cfg.mapping[t] \in DOMAIN result[k]
               /\ result[k][cfg.mapping[t]] = Str(cs[1])

(* C6 (as claimed): in every returned record, the field of a list tag is   *)
(* the sequence of the contents of all lines carrying that tag between     *)
(* the record's START_TAG line and its END_TAG line, in encounter order.   *)
C6_ListAccumulates ==
  pc = "returned" =>
    \A k \in 1..Len(result) :
      LET e == closedAt[k] + 1
          s == RecordStart(lines, e)
      IN s > 0 =>
           \A t \in (DOMAIN cfg.mapping \cap cfg.list_tags) \ {END_TAG} :
             LET cs == TagContents(lines, t, s, e) IN
             cs # <<>> =>
               /\ cfg.mapping[t] \in DOMAIN result[k]
               /\ result[k][cfg.mapping[t]] = List(cs)

\* A line the grammar ignores: blank, or not matching the tag pattern.
Ignorable(line) == IsBlank(line) \/ ~PatternMatch(line)

NotIgnorable(line) == ~Ignorable(line)

\* The input with every ignorable line removed.
RemoveIgnorable(ls) == SelectSeq(ls, NotIgnorable)

\* The input with every ignorable line after the first line removed.
Squeeze(ls) ==
  IF ls = <<>> THEN <<>> ELSE <<Head(ls)>> \o SelectSeq(Tail(ls), NotIgnorable)

\* What the caller observes of a finished call: how it ended and the records.
Outcome(r) == <<r.pc, r.result>>

WithoutMarker(ls) ==
  IF ls # <<>> /\ Head(ls) # <<>> /\ Head(ls)[1] = BOM
  THEN <<Tail(Head(ls))>> \o Tail(ls)
  ELSE ls

(* C8 (as claimed): a leading byte-order marker on the first line is       *)
(* stripped before the line is classified, so the input parses as it does  *)
(* without the marker; no other leading character of the first line is     *)
(* removed.                                                                *)
C8_MarkerStripped ==
  pc # "running" =>
    /\ <<pc, result>> = Outcome(parselines(cfg, WithoutMarker(lines)))
    /\ lines # <<>> => Eff(lines, 1) = Head(WithoutMarker(lines))

\* The tag of line k has a non-null entry in the delimiter mapping.
DelimiterHit(c, ls, k) ==
  TagBearing(ls, k) /\ DictGet(c.delimiter, TagOf(Eff(ls, k))) # None

(* C9 (as claimed): parselines returns or fails with ParserError, raised   *)
(* only by a START_TAG line arriving while a record is open, or with the   *)
(* delimiter fault; no other failure is reachable under any mapping.       *)
C9_OnlyTwoFaults ==
  /\ pc \in {"running", "returned", "ParserError", "Exception"}
  /\ pc = "ParserError" => DoubleOpenAt(lines, errIndex + 1)
  /\ pc = "Exception" => DelimiterHit(cfg, lines, i)

(* C10 (as claimed): a processed tag-bearing line whose tag has a non-null *)
(* delimiter entry aborts the parse with the delimiter fault, whatever the *)
(* tag; without such a line the fault is never raised.                     *)
C10_AnyDelimitedTagAborts ==
  /\ \A k \in 1..i : DelimiterHit(cfg, lines, k) => pc = "Exception" /\ result = <<>>
  /\ pc = "Exception" => \E k \in 1..i : DelimiterHit(cfg, lines, k)

\* Line k reaches _add_tag's delimiter lookup: its tag is mapped and is not
\* END_TAG.
DelimiterLookedUp(c, ls, k) ==
  /\ DelimiterHit(c, ls, k)
  /\ TagOf(Eff(ls, k)) \in DOMAIN c.mapping
  /\ TagOf(Eff(ls, k)) # END_TAG

(* C10 (amended): a processed tag-bearing line whose tag has a non-null    *)
(* delimiter entry aborts the parse with the delimiter fault, and nothing  *)
(* is returned, exactly when the tag is in the tag mapping and is not      *)
(* END_TAG; lines carrying END_TAG or an unmapped tag never raise it, and  *)
(* without a non-null entry for an encountered tag it is never raised.     *)
C10_MappedDelimitedTagAborts ==
  /\ \A k \in 1..i :
       DelimiterLookedUp(cfg, lines, k) =>
         pc = "Exception" /\ k = i /\ result = <<>>
  /\ pc = "Exception" => i >= 1 /\ DelimiterLookedUp(cfg, lines, i)

C10_Witness ==
  /\ pc = "Exception"
  /\ Len(content) = 1
  /\ \E k \in 1..(i - 1) : DelimiterHit(cfg, lines, k)

\* The contents that the lines s..e give for field name: those of the lines
\* whose tag the mapping sends to name.
FieldContents(c, ls, name, s, e) ==
  { Content(Eff(ls, j)) :
      j \in { m \in s..e : /\ TagBearing(ls, m)
                           /\ TagOf(Eff(ls, m)) \in DOMAIN c.mapping
                           /\ TagOf(Eff(ls, m)) # END_TAG
                           /\ c.mapping[TagOf(Eff(ls, m))] = name } }

(* C11 (as claimed): every returned record was created at a START_TAG      *)
(* line and finalized at the next END_TAG line: it holds the field mapped  *)
(* from START_TAG, and every value in it is the content of a line between  *)
(* that START_TAG line and that END_TAG line; content of lines processed   *)
(* while no record is open is in no returned record.                       *)
C11_RecordsFromOwnLines ==
  pc = "returned" =>
    \A k \in 1..Len(result) :
      LET e == closedAt[k] + 1
          s == RecordStart(lines, e)
      IN /\ s > 0
         /\ cfg.mapping[START_TAG] \in DOMAIN result[k]
         /\ \A name \in DOMAIN result[k] :
              LET own == FieldContents(cfg, lines, name, s, e) IN
              IF result[k][name].t = "list"
              THEN \A n \in 1..Len(result[k][name].v) : result[k][name].v[n] \in own
              ELSE result[k][name].v \in own

-----------------------------------------------------------------------------
(* cite (lines 82-93).                                                     *)

MaxRecs == 2

\* The characters that occur in citations, in code point order.
CodeOrder ==
  <<"\t", "\n", "\r", " ", "&", "(", ")", ",", "-", ".",
    "0", "1", "2", "3", "4", "5", "6", "7", "8", "9",
    "A", "B", "C", "D", "E", "F", "G", "H", "I", "J", "K", "L", "M",
    "N", "O", "P", "Q", "R", "S", "T", "U", "V", "W", "X", "Y", "Z",
    "a", "b", "c", "d", "e", "f", "g", "h", "i", "j", "k", "l", "m",
    "n", "o", "p", "q", "r", "s", "t", "u", "v", "w", "x", "y", "z">>

CodePoint(ch) == CHOOSE n \in 1..Len(CodeOrder) : CodeOrder[n] = ch

RECURSIVE StrLess(_, _)
\* a < b on str: lexicographic by code point.
StrLess(a, b) ==
  IF b = <<>> THEN FALSE
  ELSE IF a = <<>> THEN TRUE
  ELSE IF Head(a) = Head(b) THEN StrLess(Tail(a), Tail(b))
  ELSE CodePoint(Head(a)) < CodePoint(Head(b))

RECURSIVE Insert(_, _)
Insert(x, ss) ==
  IF ss = <<>> THEN <<x>>
  ELSE IF StrLess(x, Head(ss)) THEN <<x>> \o ss
  ELSE <<Head(ss)>> \o Insert(x, Tail(ss))

RECURSIVE Sorted(_)
\* sorted(output), line 91
Sorted(ss) ==
  IF ss = <<>> THEN <<>> ELSE Insert(ss[Len(ss)], Sorted(SubSeq(ss, 1, Len(ss) - 1)))

RECURSIVE Join(_, _)
\* sep.join(ss)
Join(sep, ss) ==
  IF ss = <<>> THEN <<>>
  ELSE IF Len(ss) = 1 THEN ss[1]
  ELSE ss[1] \o sep \o Join(sep, Tail(ss))

RECURSIVE Split(_, _)
\* str.split(ch): the pieces of s between the occurrences of ch.
Split(s, ch) ==
  IF \A n \in 1..Len(s) : s[n] # ch THEN <<s>>
  ELSE LET n == CHOOSE m \in 1..Len(s) :
                  s[m] = ch /\ \A q \in 1..(m - 1) : s[q] # ch
       IN <<SubSeq(s, 1, n - 1)>> \o Split(SubSeq(s, n + 1, Len(s)), ch)

Reversed(ss) == [n \in 1..Len(ss) |-> ss[Len(ss) + 1 - n]]

\* The items that iterating over record["authors"] yields: the elements of a
\* list, the characters of a str.
Items(v) == IF v.t = "list" THEN v.v ELSE [n \in 1..Len(v.v) |-> <<v.v[n]>>]

\* record.get(name, ''), formatted into the f-string
GetOrEmpty(rec, name) == IF name \in DOMAIN rec THEN rec[name].v ELSE <<>>

\* line 87: the separator after author number idx (0-based) of n authors
Sep(idx, n) == IF idx = n - 2 /\ n > 1 THEN <<",", " ", "&">> ELSE <<",">>

RECURSIVE AuthorParts(_, _)
\* line 88: the formatted authors of the first m names, those of fewer than
\* two words left out.
AuthorParts(names, m) ==
  IF m = 0 THEN <<>>
  ELSE LET a == names[m] IN
       IF Len(a) > 1
       THEN Append(AuthorParts(names, m - 1),
                   a[1] \o <<",", " ">> \o SubSeq(a[2], 1, 1) \o <<".">>
                     \o Sep(m - 1, Len(names)))
       ELSE AuthorParts(names, m - 1)

\* lines 86-88
FormatAuthors(v) ==
  LET items == Items(v)
      names == [n \in 1..Len(items) |-> Reversed(Split(items[n], " "))]
      joined == Join(<<" ">>, AuthorParts(names, Len(names)))
  IN SubSeq(joined, 1, Len(joined) - 1)

\* lines 86-90: the line appended for one record; record["authors"] raises
\* KeyError when the record has no authors.
FormatRecord(rec, nl) ==
  IF "authors" \notin DOMAIN rec THEN [raised |-> "KeyError", line |-> <<>>]
  ELSE LET line == FormatAuthors(rec["authors"])
                     \o <<" ", "(">> \o GetOrEmpty(rec, "year") \o <<")", ".", " ">>
                     \o GetOrEmpty(rec, "primary_title") \o <<".", " ">>
                     \o GetOrEmpty(rec, "journal_name") \o <<".", " ">>
                     \o GetOrEmpty(rec, "doi")
       IN [raised |-> "none", line |-> IF nl THEN line \o <<"\n">> ELSE line]

\* lines 91-93
JoinOutput(out) == Join(<<"\n">>, Sorted(out))

RECURSIVE CiteFrom(_, _, _, _)
\* cite as a function of its arguments: how it ends and the str it returns.
CiteFrom(recs, nl, m, out) ==
  IF m >= Len(recs) THEN [pc |-> "returned", result |-> JoinOutput(out)]
  ELSE LET r == FormatRecord(recs[m + 1], nl) IN
       IF r.raised # "none" THEN [pc |-> r.raised, result |-> <<>>]
       ELSE CiteFrom(recs, nl, m + 1, Append(out, r.line))

cite(recs, nl) == CiteFrom(recs, nl, 0, <<>>)

S_DOE_JOHN == <<"D","o","e"," ","J","o","h","n">>

S_ROE_JANE == <<"R","o","e"," ","J","a","n","e">>

S_2020 == <<"2","0","2","0">>

S_2021 == <<"2","0","2","1">>

\* The record of the renderer scenario.
R_FULL ==
  [authors |-> List(<<S_DOE_JOHN>>), year |-> Str(S_2020),
   primary_title |-> Str(<<"T">>), journal_name |-> Str(<<"J">>),
   doi |-> Str(<<"D">>)]

R_2021 ==
  [authors |-> List(<<S_DOE_JOHN>>), year |-> Str(S_2021),
   primary_title |-> Str(<<"T">>), journal_name |-> Str(<<"J">>),
   doi |-> Str(<<"D">>)]

R_TWO_AUTHORS == [authors |-> List(<<S_ROE_JANE, S_DOE_JOHN>>), doi |-> Str(<<"D">>)]

R_NO_AUTHORS == [year |-> Str(S_2020), primary_title |-> Str(<<"T">>)]

R_ONLY_AUTHORS == [authors |-> List(<<S_ROE_JANE>>)]

CiteRecords == {R_FULL, R_2021, R_TWO_AUTHORS, R_NO_AUTHORS, R_ONLY_AUTHORS}

\* cite is called; no parselines call is in progress.
InitCite ==
  /\ cfg = BaseConfig
  /\ lines = <<>>
  /\ i = 0
  /\ content = <<>>
  /\ data = EmptyDict
  /\ inref = FALSE
  /\ pc = "idle"
  /\ errIndex = -1
  /\ result = <<>>
  /\ closedAt = <<>>
  /\ aliases = {}
  /\ prev = <<>>
  /\ citeContent \in Inputs(CiteRecords, MaxRecs)
  /\ citeNewline \in BOOLEAN
  /\ citeK = 0
  /\ output = <<>>
  /\ citeResult = <<>>
  /\ citePc = "running"

\* One iteration of cite's loop (lines 85-90).
CiteRecord ==
  /\ citePc = "running"
  /\ citeK < Len(citeContent)
  /\ LET r == FormatRecord(citeContent[citeK + 1], citeNewline) IN
     IF r.raised # "none"
     THEN citePc' = r.raised /\ output' = output
     ELSE citePc' = citePc /\ output' = Append(output, r.line)
  /\ citeK' = citeK + 1
  /\ UNCHANGED <<parserVars, citeContent, citeNewline, citeResult>>

\* cite sorts, joins and returns (lines 91-93).
CiteFinish ==
  /\ citePc = "running"
  /\ citeK = Len(citeContent)
  /\ citePc' = "returned"
  /\ citeResult' = JoinOutput(output)
  /\ UNCHANGED <<parserVars, citeContent, citeNewline, citeK, output>>

NextCite == CiteRecord \/ CiteFinish

SpecCite == InitCite /\ [][NextCite]_vars

\* The lines of a str: its pieces between newline characters, without the
\* empty piece after a final newline.
LinesOf(str) ==
  LET ps == Split(str, "\n") IN
  IF ps[Len(ps)] = <<>> THEN SubSeq(ps, 1, Len(ps) - 1) ELSE ps

(* C12 (as claimed): cite, given k records, returns one str that holds     *)
(* exactly one formatted line per record and no blank line, the lines in   *)
(* lexicographic order and separated by newlines, with newline=False and   *)
(* with newline=True (each line then ending in a newline), for every k.    *)
C12_OneLinePerRecord ==
  citePc = "returned" =>
    /\ Len(LinesOf(citeResult)) = Len(citeContent)
    /\ \A n \in 1..Len(LinesOf(citeResult)) : LinesOf(citeResult)[n] # <<>>
    /\ \A n \in 1..(Len(LinesOf(citeResult)) - 1) :
         ~StrLess(LinesOf(citeResult)[n + 1], LinesOf(citeResult)[n])
    /\ (citeNewline /\ citeContent # <<>>) => citeResult[Len(citeResult)] = "\n"

\* "Doe, J. (2020). T. J. D"
ScenarioLine == <<"D","o","e",","," ","J","."," ","(","2","0","2","0",")","."," ","T","."," ","J","."," ","D">>

(* C13 (as claimed): for the one record authors=["Doe John"], year="2020", *)
(* primary_title="T", journal_name="J", doi="D", cite returns the line     *)
(* "Doe, J. (2020). T. J. D", followed by a newline when newline is set.   *)
C13_RendererScenario ==
  (citePc # "running" /\ citeContent = <<R_FULL>>) =>
    /\ citePc = "returned"
    /\ citeResult = ScenarioLine \o (IF citeNewline THEN <<"\n">> ELSE <<>>)

\* The record with its absent fields set to the values the claim gives them.
WithDefaults(rec) ==
  [name \in {"authors", "year", "primary_title", "journal_name", "doi"} |->
     IF name \in DOMAIN rec THEN rec[name]
     ELSE IF name = "authors" THEN List(<<>>) ELSE Str(<<>>)]

(* C14 (as claimed): cite never fails for a record with missing fields:    *)
(* whichever of authors, year, primary_title, journal_name, doi are        *)
(* absent, it returns what it returns with those fields empty.             *)
C14_MissingFieldsRenderEmpty ==
  citePc # "running" =>
    /\ citePc = "returned"
    /\ citeResult =
         cite([n \in 1..Len(citeContent) |-> WithDefaults(citeContent[n])],
              citeNewline).result

-----------------------------------------------------------------------------
(* C15: enforce_list_tags does not change the outcome.                     *)

\* The same configuration with enforce_list_tags negated.
FlagFlipped(c) == [c EXCEPT !.enforce_list_tags = ~c.enforce_list_tags]

\* C15: for every input and every mapping, list-tag set and delimiter
\* mapping, the call ends as the call with the other value of
\* enforce_list_tags ends: the same returned record sequence, or the same
\* fault after the same number of lines and with the same line number in its
\* message.
C15_FlagIrrelevant ==
  pc # "running" =>
    LET o == parselines(FlagFlipped(cfg), lines) IN
      /\ pc = o.pc
      /\ result = o.result
      /\ i = o.consumed
      /\ errIndex = o.errIndex

\* A call with enforce_list_tags off returned a record whose scalar field
\* was given twice with different contents.
C15_Witness ==
  /\ pc = "returned"
  /\ ~cfg.enforce_list_tags
  /\ Len(result) >= 1
  /\ \E j, k \in 1..(closedAt[1] + 1) :
       /\ j < k
       /\ TagBearing(lines, j) /\ TagBearing(lines, k)
       /\ TagOf(Eff(lines, j)) = PY /\ TagOf(Eff(lines, k)) = PY
       /\ PY \in DOMAIN cfg.mapping /\ PY \notin cfg.list_tags
       /\ Content(Eff(lines, j)) # Content(Eff(lines, k))
       /\ cfg.mapping[PY] \in DOMAIN result[1]
       /\ result[1][cfg.mapping[PY]] = Str(Content(Eff(lines, j)))

-----------------------------------------------------------------------------
(* C16: the output list only grows by appending.                           *)

\* Sequence a is a prefix of sequence b.
IsPrefix(a, b) == Len(a) <= Len(b) /\ SubSeq(b, 1, Len(a)) = a

\* C16: every step of parselines leaves the records already in the output
\* list as they were, field for field and in the same positions, and at most
\* appends one record at the end: the list after the step extends the list
\* before it.
C16_OutputOnlyGrows ==
  [][/\ IsPrefix(content, content')
     /\ Len(content') <= Len(content) + 1]_vars

\* After a record was appended, a line that adds a field of the same name to
\* the working record was processed, and a second record was appended.
C16_Witness ==
  /\ Len(content) >= 2
  /\ closedAt[2] > closedAt[1] + 1
  /\ \E name \in DOMAIN content[1] : name \in DOMAIN content[2]
  /\ content[1] # content[2]

-----------------------------------------------------------------------------
(* C17: a line with an unmapped tag changes nothing.                       *)

\* The next line to process is tag-bearing and its tag is neither START_TAG
\* nor END_TAG nor a key of the tag mapping.
UnmappedTagNext ==
  /\ pc = "running"
  /\ i < Len(lines)
  /\ TagBearing(lines, i + 1)
  /\ TagOf(Eff(lines, i + 1)) \notin {START_TAG, END_TAG}
  /\ TagOf(Eff(lines, i + 1)) \notin DOMAIN cfg.mapping

\* C17: processing a tag-bearing line whose tag is neither START_TAG nor
\* END_TAG and is absent from the tag mapping raises nothing and leaves the
\* working record, the inside flag and the output list unchanged, whatever
\* the delimiter mapping and the list-tag set hold for that tag.
C17_UnmappedTagIsNoop ==
  [][UnmappedTagNext => pc' = "running" /\ UNCHANGED <<data, inref, content>>]_vars

\* A line with an unmapped tag that is a list tag and has a delimiter entry
\* was just processed while the working record was non-empty and open.
C17_Witness ==
  /\ pc = "running"
  /\ i >= 1
  /\ TagBearing(lines, i)
  /\ TagOf(Eff(lines, i)) \notin {START_TAG, END_TAG}
  /\ TagOf(Eff(lines, i)) \notin DOMAIN cfg.mapping
  /\ TagOf(Eff(lines, i)) \in cfg.list_tags
  /\ DictGet(cfg.delimiter, TagOf(Eff(lines, i))) # None
  /\ data # EmptyDict
  /\ inref

-----------------------------------------------------------------------------
(* Several parselines calls on one parser instance.                        *)

MaxCalls == 3

MaxLenCalls == 2

CallLinePool == {L_TY, L_ER, L_AU_X}

\* The default configuration, and one whose delimiter mapping has an entry
\* for the mapped tag AU.
CallConfigs == {BaseConfig, Config(BaseMapping, {AU}, (AU :> Str(<<",">>)), TRUE)}

InitCalls == InitWith(CallConfigs, Inputs(CallLinePool, MaxLenCalls))

\* How the call that just ended did so: the exception it raised, or that it
\* returned, with a record still open ("open") or not ("returned").
HowEnded == IF pc = "returned" THEN (IF inref THEN "open" ELSE "returned") ELSE pc

\* The caller calls parselines again on the same instance (lines 32-33): the
\* locals of the earlier call are gone, self.inref is what that call left.
Call ==
  /\ pc \notin {"running", "idle"}
  /\ Len(prev) < MaxCalls
  /\ lines' \in Inputs(CallLinePool, MaxLenCalls)
  /\ LET st == EntryState(inref)
     IN /\ content' = st.content
        /\ data' = st.data
        /\ inref' = st.inref
        /\ pc' = st.pc
        /\ errIndex' = st.errIndex
        /\ closedAt' = st.closedAt
        /\ aliases' = st.aliases
  /\ i' = 0
  /\ result' = <<>>
  /\ prev' = Append(prev, HowEnded)
  /\ UNCHANGED <<cfg, citeVars>>

NextCalls == ProcessLine \/ Return \/ Call

SpecCalls == InitCalls /\ [][NextCalls]_vars

\* C18: however the earlier calls on the instance ended, a call ends as the
\* first call of a new instance with the same configuration ends on the same
\* lines: the same returned records, or the same fault after the same number
\* of lines and with the same line number in its message.
C18_CallsIndependent ==
  pc # "running" =>
    LET o == parselines(cfg, lines) IN
      /\ pc = o.pc
      /\ result = o.result
      /\ i = o.consumed
      /\ errIndex = o.errIndex

\* A call returned a record on an instance on which one earlier call ended
\* in ParserError, one in the delimiter fault and one with a record open.
C18_Witness ==
  /\ pc = "returned"
  /\ Len(result) >= 1
  /\ \A how \in {"ParserError", "Exception", "open"} :
       \E n \in 1..Len(prev) : prev[n] = how
  /\ prev[Len(prev)] = "open"
  /\ IsStartLine(lines, 1)

-----------------------------------------------------------------------------
(* C19: parselines terminates and consumes the lines in order.             *)

MaxLenLive == 3

LiveLinePool == {L_TY, L_ER, L_AU_X, L_BLANK}

InitLive == InitWith(CallConfigs, Inputs(LiveLinePool, MaxLenLive))

\* parselines is sequential code over a finite list: while the call has not
\* ended, its next step is taken.
SpecLive == InitLive /\ [][Next]_vars /\ WF_vars(Next)

Faults == {"ParserError", "KeyError", "Exception", "AttributeError"}

\* A step of the call: it is taken only while the call has not ended, and it
\* either processes line number i and moves to i + 1, going on or raising a
\* fault, or returns when all the lines have been consumed.
InOrderStep ==
  /\ pc = "running"
  /\ \/ /\ i < Len(lines)
        /\ i' = i + 1
        /\ pc' \in {"running"} \cup Faults
     \/ /\ i = Len(lines)
        /\ i' = i
        /\ pc' = "returned"

\* C19: for every input of n lines the call ends: the lines are processed in
\* increasing index order, each once; the call eventually returns, after all
\* n lines were consumed, or raises a fault at a line and processes no line
\* after it.
C19_Terminates ==
  /\ <>(pc \in {"returned"} \cup Faults)
  /\ [][InOrderStep]_vars
  /\ [](pc = "returned" => i = Len(lines))
  /\ [](pc \in Faults => i \in 1..Len(lines))

\* The call stopped at a fault with lines left unprocessed, after lines
\* that raised nothing.
C19_Witness ==
  /\ pc \in Faults
  /\ i >= 2
  /\ i < Len(lines)

-----------------------------------------------------------------------------
(* C20: what an END_TAG line does.                                         *)

\* The next line to process is an END_TAG line.
EndTagNext ==
  /\ pc = "running"
  /\ i < Len(lines)
  /\ IsEndLine(lines, i + 1)

\* C20: processing an END_TAG line raises nothing, appends the working
\* record to the output list exactly when the working record is non-empty,
\* whatever the inside flag is, and leaves the working record empty and the
\* inside flag false; no record of the output list or of the returned list
\* is empty.
C20_EndTagAppendsIffNonEmpty ==
  /\ [][EndTagNext =>
          /\ pc' = "running"
          /\ content' = IF data # EmptyDict THEN Append(content, data) ELSE content
          /\ data' = EmptyDict
          /\ inref' = FALSE]_vars
  /\ [](\A k \in 1..Len(content) : content[k] # EmptyDict)
  /\ [](\A k \in 1..Len(result) : result[k] # EmptyDict)

\* An END_TAG line that arrived with no record open was just processed and
\* appended the non-empty working record; an earlier END_TAG line had found
\* the working record empty and appended nothing.
C20_Witness ==
  /\ pc = "running"
  /\ i >= 2
  /\ IsEndLine(lines, i)
  /\ ~OpenBefore(lines, i)
  /\ Len(content) = 1
  /\ closedAt = <<i - 1>>
  /\ data = EmptyDict
  /\ ~inref
  /\ IsEndLine(lines, 1)

====
